---- MODULE Spec2Model ----
(***************************************************************************)
(* State-machine model of buzzkill.py: the module-level startup sequence   *)
(* that loads the two word lists, and the /process_input request handler   *)
(* (validation, corpus selection, matching, grouping, response).           *)
(*                                                                         *)
(* Characters are their ASCII codes, strings are sequences of codes, so    *)
(* that str.lower / str.upper / str.strip are computed, not assumed.       *)
(*   32 ' '   49 '1'   65 'A' 66 'B' 67 'C'   97 'a' 98 'b' 99 'c' ...     *)
(***************************************************************************)
EXTENDS Integers, Sequences, FiniteSets, TLC

(***************************************************************************)
(* Bounds                                                                  *)
(***************************************************************************)
MaxCuratedLines == 2
MaxRemoteLines == 2
NumClients == 2

Clients == 1..NumClients

(***************************************************************************)
(* Python string primitives used by the source                             *)
(***************************************************************************)
Whitespace == {9, 10, 11, 12, 13, 32}

isalpha(ch) == ch \in 65..90 \/ ch \in 97..122

lower_ch(ch) == IF ch \in 65..90 THEN ch + 32 ELSE ch

upper_ch(ch) == IF ch \in 97..122 THEN ch - 32 ELSE ch

lower(s) == [i \in 1..Len(s) |-> lower_ch(s[i])]

upper(s) == [i \in 1..Len(s) |-> upper_ch(s[i])]

RECURSIVE lstrip(_)
lstrip(s) ==
    IF s = <<>> THEN s
    ELSE IF Head(s) \in Whitespace THEN lstrip(Tail(s)) ELSE s

RECURSIVE rstrip(_)
rstrip(s) ==
    IF s = <<>> THEN s
    ELSE IF s[Len(s)] \in Whitespace THEN rstrip(SubSeq(s, 1, Len(s) - 1)) ELSE s

\* variant: the input is used as typed
strip_none(s) == s

strip(s) == rstrip(lstrip(s))

\* set(s): the distinct characters of a string
set(s) == {s[i] : i \in 1..Len(s)}

\* sub in w: sub occurs in w as a contiguous substring
contains(w, sub) ==
    \E k \in 0..(Len(w) - Len(sub)) :
        \A j \in 1..Len(sub) : w[k + j] = sub[j]

\* a dict with no keys
EmptyDict == <<>>

\* data.get(key) or default, for a JSON object given as a function on its keys
get_or(data, key, default) ==
    IF key \in DOMAIN data THEN data[key] ELSE default

(***************************************************************************)
(* Inputs: what the curated file and the remote word list may hold         *)
(***************************************************************************)
\* raw lines of data/wordlists/sb_master.txt
CuratedLines ==
    { <<97, 98, 99, 97>>,          \* "abca"
      <<97, 98, 98, 97>>,          \* "abba"
      <<66, 65, 65, 66, 32>>,      \* "BAAB "
      <<97, 98, 97>>,              \* "aba"
      <<32>> }                     \* " "  (blank line)

\* raw lines of the remote words_alpha.txt
RemoteLines ==
    { <<97, 98, 98, 97>>,          \* "abba"
      <<97, 98, 98, 97, 99>>,      \* "abbac"
      <<99, 97, 97, 98>>,          \* "caab"
      <<97, 97, 97, 97>>,          \* "aaaa"
      <<>> }                       \* ""   (blank line)

SeqsUpTo(S, n) == UNION {[1..k -> S] : k \in 0..n}

\* the curated file: absent, or present with some lines
CuratedFiles ==
    {[exists |-> FALSE, lines |-> <<>>]} \cup
    {[exists |-> TRUE, lines |-> ls] : ls \in SeqsUpTo(CuratedLines, MaxCuratedLines)}

\* the outcome of GET words_alpha.txt: an HTTP/network failure, or a body
RemoteReplies ==
    {[ok |-> FALSE, lines |-> <<>>]} \cup
    {[ok |-> TRUE, lines |-> ls] : ls \in SeqsUpTo(RemoteLines, MaxRemoteLines)}

(***************************************************************************)
(* State                                                                   *)
(***************************************************************************)
VARIABLES
    startup,        \* position in the module-level code of buzzkill.py
    CURATED_WORDS,  \* module global, line 17
    ALL_WORDS,      \* module global, lines 30/34
    loads,          \* number of file reads / HTTP fetches attempted so far
    frame,          \* per request: position and locals of process_input
    response        \* per request: the value process_input returned

vars == <<startup, CURATED_WORDS, ALL_WORDS, loads, frame, response>>

NoResponse == [code |-> 0, body |-> EmptyDict]

IdleFrame ==
    [pc |-> "idle", data |-> EmptyDict,
     common_pool |-> <<>>, filter_letter |-> <<>>, use_curated |-> FALSE,
     source |-> "", candidate_words |-> <<>>, matches |-> <<>>, pos |-> 0,
     result |-> EmptyDict, word_counts |-> EmptyDict, ran |-> {}]

Init ==
    /\ startup = "load_curated"
    /\ CURATED_WORDS = <<>>
    /\ ALL_WORDS = <<>>
    /\ loads = 0
    /\ frame = [c \in Clients |-> IdleFrame]
    /\ response = [c \in Clients |-> NoResponse]

(***************************************************************************)
(* Startup: module-level statements, in source order                       *)
(***************************************************************************)
\* [ln.strip().lower() for ln in lines if ln.strip()]
normalise_lines(lines) ==
    LET kept == SelectSeq(lines, LAMBDA ln : strip(ln) # <<>>)
    IN  [i \in 1..Len(kept) |-> lower(strip(kept[i]))]

load_txt_local(file) ==
    IF ~file.exists THEN <<>> ELSE normalise_lines(file.lines)

load_txt_remote(reply) == normalise_lines(reply.lines)

\* line 17: CURATED_WORDS = load_txt_local(SB_MASTER_TXT)
LoadCurated(file) ==
    /\ startup = "load_curated"
    /\ CURATED_WORDS' = load_txt_local(file)
    /\ loads' = loads + 1
    /\ startup' = "load_remote"
    /\ UNCHANGED <<ALL_WORDS, frame, response>>

\* lines 29-34: try: ALL_WORDS = load_txt_remote(URL) except Exception: ALL_WORDS = []
LoadRemote(reply) ==
    /\ startup = "load_remote"
    /\ ALL_WORDS' = IF reply.ok THEN load_txt_remote(reply) ELSE <<>>
    /\ loads' = loads + 1
    /\ startup' = "read_csv"
    /\ UNCHANGED <<CURATED_WORDS, frame, response>>

\* lines 48-55: external_word_data = pd.read_csv(URL, ...) outside any try:
\* an exception here ends the import of the module
ReadExternalWordData(ok) ==
    /\ startup = "read_csv"
    /\ loads' = loads + 1
    /\ startup' = IF ok THEN "serving" ELSE "aborted"
    /\ UNCHANGED <<CURATED_WORDS, ALL_WORDS, frame, response>>

(***************************************************************************)
(* Request bodies (the JSON object posted to /process_input)               *)
(***************************************************************************)
Pools ==
    { <<>>,                                   \* ""
      <<32>>,                                 \* " "
      <<97, 98>>,                             \* "ab"
      <<32, 65, 66, 67>>,                     \* " ABC"
      <<97, 98, 32, 49>>,                     \* "ab 1"
      <<97, 98, 99, 100, 101, 102, 103>> }    \* "abcdefg"

Centers ==
    { <<>>,                                   \* ""
      <<97>>,                                 \* "a"
      <<67, 32>>,                             \* "C "
      <<97, 98>> }                            \* "ab" (more than one letter)

\* every body with all three keys, and bodies with a key left out
RequestBodies ==
    { [common_pool |-> p, filter_letter |-> f, use_curated |-> u] :
        p \in Pools, f \in Centers, u \in BOOLEAN }
    \cup
    { EmptyDict,
      [filter_letter |-> <<97>>, use_curated |-> TRUE],               \* no pool
      [common_pool |-> <<97, 98>>, use_curated |-> TRUE],             \* no center
      [common_pool |-> <<32, 65, 66, 67>>, filter_letter |-> <<97>>] } \* no flag

(***************************************************************************)
(* process_input                                                           *)
(***************************************************************************)
\* variant: the curated list is used whenever asked for, empty or not
get_candidate_words_unchecked(use_curated) ==
    IF use_curated
    THEN [name |-> "CURATED_WORDS", words |-> CURATED_WORDS]
    ELSE [name |-> "ALL_WORDS", words |-> ALL_WORDS]

get_candidate_words(use_curated) ==
    IF use_curated /\ CURATED_WORDS # <<>>
    THEN [name |-> "CURATED_WORDS", words |-> CURATED_WORDS]
    ELSE [name |-> "ALL_WORDS", words |-> ALL_WORDS]

\* variant: the length rule is off by one
valid_word_min3(w0, filter_letter, pool_set) ==
    LET w == lower(w0)
    IN  IF Len(w) < 3 THEN FALSE
        ELSE IF ~contains(w, filter_letter) THEN FALSE
        ELSE \A i \in 1..Len(w) : w[i] \in pool_set

valid_word(w0, filter_letter, pool_set) ==
    LET w == lower(w0)
    IN  IF Len(w) < 4 THEN FALSE
        ELSE IF ~contains(w, filter_letter) THEN FALSE
        ELSE \A i \in 1..Len(w) : w[i] \in pool_set

\* variant: the upper-cased word is compared without folding its case
is_pangram_cased(w, pool_set) == pool_set \subseteq set(w)

is_pangram(w, pool_set) == pool_set \subseteq set(lower(w))

\* lines 136-141: put [w_up, pang] into result[first_letter][wl]
insert_match(result, first_letter, wl, entry) ==
    LET r1 == IF first_letter \notin DOMAIN result
              THEN result @@ (first_letter :> EmptyDict) ELSE result
        r2 == IF wl \notin DOMAIN r1[first_letter]
              THEN [r1 EXCEPT ![first_letter] = @ @@ (wl :> <<>>)] ELSE r1
    IN  [r2 EXCEPT ![first_letter][wl] = Append(@, entry)]

\* variant: the count is set, not incremented
bump_count_reset(result, word_counts, first_letter) ==
    LET c1 == IF first_letter \notin DOMAIN result
              THEN word_counts @@ (first_letter :> 0) ELSE word_counts
    IN  [c1 EXCEPT ![first_letter] = 1]

\* lines 136-138, 142: word_counts[first_letter] += 1, from 0 for a new key
bump_count(result, word_counts, first_letter) ==
    LET c1 == IF first_letter \notin DOMAIN result
              THEN word_counts @@ (first_letter :> 0) ELSE word_counts
    IN  [c1 EXCEPT ![first_letter] = @ + 1]

\* variant: the emptiness of the result is not looked at
make_response_unchecked(result, word_counts) ==
    [code |-> 200,
     body |-> [status |-> "success", result |-> result, counts |-> word_counts]]

\* lines 144-147
make_response(result, word_counts) ==
    IF result # EmptyDict
    THEN [code |-> 200,
          body |-> [status |-> "success", result |-> result, counts |-> word_counts]]
    ELSE [code |-> 200,
          body |-> [status |-> "error", message |-> "No matching words found."]]

BadRequest ==
    [code |-> 400,
     body |-> [status |-> "error",
               message |-> "Provide common_pool (7 letters) and filter_letter."]]

\* lines 87-99: read the body, trim, reject an empty pool or center, lower-case
Validate(c, data) ==
    /\ startup = "serving"
    /\ frame[c].pc = "idle"
    /\ LET common_pool_raw == strip(get_or(data, "common_pool", <<>>))
           filter_letter_raw == strip(get_or(data, "filter_letter", <<>>))
           use_curated == get_or(data, "use_curated", FALSE)
       IN  IF common_pool_raw = <<>> \/ filter_letter_raw = <<>>
           THEN /\ frame' = [frame EXCEPT ![c] =
                        [IdleFrame EXCEPT !.pc = "done", !.data = data,
                                          !.use_curated = use_curated]]
                /\ response' = [response EXCEPT ![c] = BadRequest]
           ELSE /\ frame' = [frame EXCEPT ![c] =
                        [IdleFrame EXCEPT !.pc = "select", !.data = data,
                                          !.use_curated = use_curated,
                                          !.common_pool = lower(common_pool_raw),
                                          !.filter_letter = lower(filter_letter_raw)]]
                /\ response' = [response EXCEPT ![c] = NoResponse]
    /\ UNCHANGED <<startup, CURATED_WORDS, ALL_WORDS, loads>>

\* lines 101-107: candidate_words = get_candidate_words(use_curated)
ChooseCandidates(c) ==
    /\ frame[c].pc = "select"
    /\ LET chosen == get_candidate_words(frame[c].use_curated)
       IN  frame' = [frame EXCEPT ![c].pc = "filter",
                                  ![c].source = chosen.name,
                                  ![c].candidate_words = chosen.words,
                                  ![c].ran = @ \cup {"select"}]
    /\ UNCHANGED <<startup, CURATED_WORDS, ALL_WORDS, loads, response>>

\* variant: the selected list is filtered in place, so the global it names changes
FilterCandidates_inplace(c) ==
    /\ frame[c].pc = "filter"
    /\ LET pool_set == set(frame[c].common_pool)
           kept == SelectSeq(frame[c].candidate_words,
                    LAMBDA w : valid_word(w, frame[c].filter_letter, pool_set))
       IN  /\ frame' = [frame EXCEPT
                    ![c].pc = "group", ![c].candidate_words = kept,
                    ![c].matches = kept, ![c].pos = 0,
                    ![c].result = EmptyDict, ![c].word_counts = EmptyDict,
                    ![c].ran = @ \cup {"filter"}]
           /\ CURATED_WORDS' = IF frame[c].source = "CURATED_WORDS"
                               THEN kept ELSE CURATED_WORDS
           /\ ALL_WORDS' = IF frame[c].source = "ALL_WORDS"
                           THEN kept ELSE ALL_WORDS
    /\ UNCHANGED <<startup, loads, response>>

\* lines 109-129: matches = [w for w in candidate_words if valid_word(w)]
FilterCandidates(c) ==
    /\ frame[c].pc = "filter"
    /\ LET pool_set == set(frame[c].common_pool)
       IN  frame' = [frame EXCEPT
                ![c].pc = "group",
                ![c].matches = SelectSeq(frame[c].candidate_words,
                    LAMBDA w : valid_word(w, frame[c].filter_letter, pool_set)),
                ![c].pos = 0,
                ![c].result = EmptyDict,
                ![c].word_counts = EmptyDict,
                ![c].ran = @ \cup {"filter"}]
    /\ UNCHANGED <<startup, CURATED_WORDS, ALL_WORDS, loads, response>>

\* lines 130-142: one iteration of "for w in matches"
GroupStep(c) ==
    /\ frame[c].pc = "group"
    /\ frame[c].pos < Len(frame[c].matches)
    /\ LET w == frame[c].matches[frame[c].pos + 1]
           w_up == upper(w)
           wl == Len(w_up)
           pang == is_pangram(w_up, set(frame[c].common_pool))
           first_letter == w_up[1]
       IN  frame' = [frame EXCEPT
                ![c].pos = @ + 1,
                ![c].result = insert_match(@, first_letter, wl, <<w_up, pang>>),
                ![c].word_counts =
                    bump_count(frame[c].result, @, first_letter),
                ![c].ran = @ \cup {"group"}]
    /\ UNCHANGED <<startup, CURATED_WORDS, ALL_WORDS, loads, response>>

\* lines 144-147: the loop is over, build the response
Respond(c) ==
    /\ frame[c].pc = "group"
    /\ frame[c].pos = Len(frame[c].matches)
    /\ frame' = [frame EXCEPT ![c].pc = "done"]
    /\ response' = [response EXCEPT ![c] =
            make_response(frame[c].result, frame[c].word_counts)]
    /\ UNCHANGED <<startup, CURATED_WORDS, ALL_WORDS, loads>>

\* the handler has returned: its locals are gone, the worker takes a new request
Return(c) ==
    /\ frame[c].pc = "done"
    /\ frame' = [frame EXCEPT ![c] = IdleFrame]
    /\ response' = [response EXCEPT ![c] = NoResponse]
    /\ UNCHANGED <<startup, CURATED_WORDS, ALL_WORDS, loads>>

(***************************************************************************)
(* Specifications                                                          *)
(***************************************************************************)
\* one request at a time, over the full input sets
Next ==
    \/ \E file \in CuratedFiles : LoadCurated(file)
    \/ \E reply \in RemoteReplies : LoadRemote(reply)
    \/ \E ok \in BOOLEAN : ReadExternalWordData(ok)
    \/ \E data \in RequestBodies : Validate(1, data)
    \/ ChooseCandidates(1)
    \/ FilterCandidates(1)
    \/ GroupStep(1)
    \/ Respond(1)
    \/ Return(1)

Spec == Init /\ [][Next]_vars

(***************************************************************************)
(* Concurrent requests: every client runs process_input, steps interleave  *)
(***************************************************************************)
ConcCuratedFiles ==
    { [exists |-> FALSE, lines |-> <<>>],
      [exists |-> TRUE,
       lines |-> << <<97, 98, 99, 97>>, <<97, 98, 98, 97>> >>] }  \* abca, abba

ConcRemoteReplies ==
    { [ok |-> FALSE, lines |-> <<>>],
      [ok |-> TRUE,
       lines |-> << <<99, 97, 97, 98>>, <<97, 98, 98, 97, 99>> >>] } \* caab, abbac

ConcBodies ==
    { [common_pool |-> <<32, 65, 66, 67>>, filter_letter |-> <<97>>,
       use_curated |-> TRUE],                                  \* " ABC", "a"
      [common_pool |-> <<97, 98>>, filter_letter |-> <<97>>,
       use_curated |-> FALSE],                                 \* "ab", "a"
      [common_pool |-> <<97, 98, 99>>, filter_letter |-> <<67, 32>>,
       use_curated |-> TRUE],                                  \* "abc", "C "
      [filter_letter |-> <<97>>] }                             \* no pool

ConcNext ==
    \/ \E file \in ConcCuratedFiles : LoadCurated(file)
    \/ \E reply \in ConcRemoteReplies : LoadRemote(reply)
    \/ \E ok \in BOOLEAN : ReadExternalWordData(ok)
    \/ \E c \in Clients, data \in ConcBodies : Validate(c, data)
    \/ \E c \in Clients : ChooseCandidates(c)
    \/ \E c \in Clients : FilterCandidates(c)
    \/ \E c \in Clients : GroupStep(c)
    \/ \E c \in Clients : Respond(c)
    \/ \E c \in Clients : Return(c)

ConcSpec == Init /\ [][ConcNext]_vars

(***************************************************************************)
(* Vocabulary of the properties, stated without the handler's operators    *)
(***************************************************************************)
IsBlank(s) == \A i \in 1..Len(s) : s[i] \in Whitespace

RawPool(c) == get_or(frame[c].data, "common_pool", <<>>)

RawCenter(c) == get_or(frame[c].data, "filter_letter", <<>>)

Finished(c) == frame[c].pc = "done"

PassesValidation(c) == ~IsBlank(RawPool(c)) /\ ~IsBlank(RawCenter(c))

\* the distinct letters of the pool, case folded
PoolLetters(c) == {lower_ch(ch) : ch \in set(frame[c].common_pool)}

LettersOf(w) == {lower_ch(ch) : ch \in set(w)}

\* the three rules of the puzzle, compared case-insensitively
SatisfiesRules(w, c) ==
    /\ Len(w) >= 4
    /\ \E k \in 0..(Len(w) - Len(frame[c].filter_letter)) :
           \A j \in 1..Len(frame[c].filter_letter) :
               lower_ch(w[k + j]) = lower_ch(frame[c].filter_letter[j])
    /\ LettersOf(w) \subseteq PoolLetters(c)

\* the words of the selected corpus that satisfy the rules
AcceptedIndices(c) ==
    {i \in 1..Len(frame[c].candidate_words) :
        SatisfiesRules(frame[c].candidate_words[i], c)}

\* the [WORD, isPangram] entries of a grouped result
EntriesOf(result) ==
    UNION { UNION { {result[L][n][i] : i \in 1..Len(result[L][n])} :
                    n \in DOMAIN result[L] } : L \in DOMAIN result }

ResponseEntries(c) ==
    IF response[c].body.status = "success"
    THEN EntriesOf(response[c].body.result) ELSE {}

IsNoMatch(r) ==
    /\ r.code = 200
    /\ r.body = [status |-> "error", message |-> "No matching words found."]

\* C1: a validated request returns exactly the corpus words that have
\* length >= 4, contain the center letter and use only pool letters.
C1_ExactMatches ==
    \A c \in Clients :
        (Finished(c) /\ PassesValidation(c)) =>
            {lower(e[1]) : e \in ResponseEntries(c)} =
            {lower(frame[c].candidate_words[i]) : i \in AcceptedIndices(c)}

\* a success response on a corpus that holds an accepted and a rejected word
W_C1 ==
    \E c \in Clients :
        /\ Finished(c) /\ response[c].body.status = "success"
        /\ AcceptedIndices(c) # {}
        /\ \E w \in set(frame[c].candidate_words) : ~SatisfiesRules(w, c)

\* C2: an entry is flagged pangram iff the pool's letters are all in the
\* word; every flagged word satisfies the three rules.
C2_PangramFlag ==
    \A c \in Clients :
        Finished(c) =>
            \A e \in ResponseEntries(c) :
                /\ e[2] <=> (PoolLetters(c) \subseteq LettersOf(e[1]))
                /\ e[2] => SatisfiesRules(e[1], c)

\* a response holding a pangram and a valid word that misses a pool letter
W_C2 ==
    \E c \in Clients :
        /\ Finished(c)
        /\ \E e \in ResponseEntries(c) : e[2]
        /\ \E e \in ResponseEntries(c) : ~e[2] /\ SatisfiesRules(e[1], c)

RECURSIVE SumOver(_, _)
SumOver(f, S) ==
    IF S = {} THEN 0
    ELSE LET k == CHOOSE x \in S : TRUE IN f[k] + SumOver(f, S \ {k})

\* the number of entries under first letter L, over all its length buckets
BucketTotal(result, L) ==
    SumOver([n \in DOMAIN result[L] |-> Len(result[L][n])], DOMAIN result[L])

TotalCount(counts) == SumOver(counts, DOMAIN counts)

Balanced(result, counts) ==
    /\ DOMAIN result = DOMAIN counts
    /\ \A L \in DOMAIN result : BucketTotal(result, L) = counts[L]

InLoop(c) == frame[c].pc = "group"

\* C3 as stated: per-letter bucket sizes add up to counts, the key sets agree
\* and the counts add up to the number of accepted words, after every step of
\* the grouping loop and in the response.
C3_AsStated ==
    \A c \in Clients :
        /\ (InLoop(c) /\ frame[c].pos > 0) =>
            /\ Balanced(frame[c].result, frame[c].word_counts)
            /\ TotalCount(frame[c].word_counts) = Cardinality(AcceptedIndices(c))
        /\ (Finished(c) /\ response[c].body.status = "success") =>
            /\ Balanced(response[c].body.result, response[c].body.counts)
            /\ TotalCount(response[c].body.counts) = Cardinality(AcceptedIndices(c))

\* C3 amended: inside the loop the counts add up to the number of matches
\* grouped so far; they add up to the number of accepted words in the response.
C3_Grouping ==
    \A c \in Clients :
        /\ InLoop(c) =>
            /\ Balanced(frame[c].result, frame[c].word_counts)
            /\ TotalCount(frame[c].word_counts) = frame[c].pos
            /\ frame[c].pos <= Cardinality(AcceptedIndices(c))
        /\ (Finished(c) /\ response[c].body.status = "success") =>
            /\ Balanced(response[c].body.result, response[c].body.counts)
            /\ TotalCount(response[c].body.counts) = Cardinality(AcceptedIndices(c))

\* the loop between two iterations: one match grouped, another still to come
W_C3 ==
    \E c \in Clients :
        /\ InLoop(c)
        /\ 0 < frame[c].pos /\ frame[c].pos < Len(frame[c].matches)
        /\ frame[c].result # EmptyDict

\* C4: a missing or blank pool or center is answered 400 / "error" before
\* any selection or matching, and never with the no-matches message.
C4_RejectedEarly ==
    \A c \in Clients :
        /\ (frame[c].pc # "idle" /\ ~PassesValidation(c)) =>
            /\ Finished(c)
            /\ response[c].code = 400
            /\ response[c].body.status = "error"
            /\ response[c].body.message # "No matching words found."
            /\ frame[c].ran = {}
        /\ (Finished(c) /\ PassesValidation(c)) => response[c].code # 400

\* a whitespace-only pool rejected while both corpora are empty
W_C4 ==
    \E c \in Clients :
        /\ Finished(c) /\ response[c].code = 400
        /\ RawPool(c) # <<>> /\ IsBlank(RawPool(c))
        /\ CURATED_WORDS = <<>> /\ ALL_WORDS = <<>>

\* C5: a validated request gets the no-matches message, as a normal reply,
\* exactly when no word of the selected corpus is accepted; otherwise it gets
\* "success" with a non-empty result and counts.
C5_NoMatches ==
    \A c \in Clients :
        (Finished(c) /\ PassesValidation(c)) =>
            IF AcceptedIndices(c) = {}
            THEN IsNoMatch(response[c])
            ELSE /\ response[c].code = 200
                 /\ response[c].body.status = "success"
                 /\ response[c].body.result # EmptyDict
                 /\ response[c].body.counts # EmptyDict

\* a validated request answered with the no-matches message on an empty corpus
W_C5 ==
    \E c \in Clients :
        /\ Finished(c) /\ PassesValidation(c)
        /\ frame[c].candidate_words = <<>>
        /\ IsNoMatch(response[c])

\* C6: the curated list is selected iff use_curated is true and the list is
\* non-empty, the generic list otherwise (even when empty), and nothing is
\* loaded or fetched by the call.
C6_Selection ==
    \A c \in Clients :
        "select" \in frame[c].ran =>
            LET wanted == get_or(frame[c].data, "use_curated", FALSE)
            IN  /\ frame[c].source = "CURATED_WORDS"
                      <=> (wanted /\ Len(CURATED_WORDS) > 0)
                /\ frame[c].source = "CURATED_WORDS"
                      => frame[c].candidate_words = CURATED_WORDS
                /\ frame[c].source # "CURATED_WORDS"
                      => /\ frame[c].source = "ALL_WORDS"
                         /\ frame[c].candidate_words = ALL_WORDS
                /\ loads = 3

\* use_curated is set, the curated list is empty: the empty generic list is used
W_C6 ==
    \E c \in Clients :
        /\ "select" \in frame[c].ran
        /\ frame[c].use_curated
        /\ CURATED_WORDS = <<>> /\ ALL_WORDS = <<>>
        /\ frame[c].source = "ALL_WORDS"

\* C7: no load failure aborts the process: the startup sequence is never
\* left through an exception.
C7_StartupNeverAborts == startup # "aborted"

RECURSIVE LexLeq(_, _)
LexLeq(a, b) ==
    IF a = <<>> THEN TRUE
    ELSE IF b = <<>> THEN FALSE
    ELSE IF Head(a) # Head(b) THEN Head(a) < Head(b)
    ELSE LexLeq(Tail(a), Tail(b))

\* C8: in every bucket of a response the words are in alphabetical order.
C8_BucketsSorted ==
    \A c \in Clients :
        (Finished(c) /\ response[c].body.status = "success") =>
            LET r == response[c].body.result
            IN  \A L \in DOMAIN r : \A n \in DOMAIN r[L] :
                    \A i \in 1..(Len(r[L][n]) - 1) :
                        LexLeq(r[L][n][i][1], r[L][n][i + 1][1])

RECURSIVE group_all(_, _, _, _)
group_all(matches, pool_set, result, word_counts) ==
    IF matches = <<>> THEN [result |-> result, word_counts |-> word_counts]
    ELSE LET w_up == upper(Head(matches))
         IN  group_all(Tail(matches), pool_set,
                 insert_match(result, w_up[1], Len(w_up),
                              <<w_up, is_pangram(w_up, pool_set)>>),
                 bump_count(result, word_counts, w_up[1]))

\* process_input run from start to end with nothing else running
RunAlone(data) ==
    LET pool == strip(get_or(data, "common_pool", <<>>))
        center == strip(get_or(data, "filter_letter", <<>>))
    IN  IF pool = <<>> \/ center = <<>> THEN BadRequest
        ELSE LET pool_set == set(lower(pool))
                 words == get_candidate_words(get_or(data, "use_curated", FALSE)).words
                 matches == SelectSeq(words,
                                LAMBDA w : valid_word(w, lower(center), pool_set))
                 grouped == group_all(matches, pool_set, EmptyDict, EmptyDict)
             IN  make_response(grouped.result, grouped.word_counts)

\* C9: after startup no step changes CURATED_WORDS or ALL_WORDS, and every
\* request, however its steps interleave with other requests, returns what
\* the same request returns when run alone.
C9_Isolation ==
    /\ [](\A c \in Clients : Finished(c) => response[c] = RunAlone(frame[c].data))
    /\ [][startup = "serving" =>
            (CURATED_WORDS' = CURATED_WORDS /\ ALL_WORDS' = ALL_WORDS)]_vars

\* a finished successful request while another request is inside its loop
W_C9 ==
    \E c1 \in Clients, c2 \in Clients :
        /\ c1 # c2
        /\ Finished(c1) /\ response[c1].body.status = "success"
        /\ InLoop(c2) /\ frame[c2].pos > 0
        /\ frame[c1].source = frame[c2].source

\* C10: the matcher only ever runs against a pool of exactly 7 letters.
C10_PoolIsSevenLetters ==
    \A c \in Clients :
        "filter" \in frame[c].ran =>
            /\ Len(frame[c].common_pool) = 7
            /\ \A i \in 1..Len(frame[c].common_pool) : isalpha(frame[c].common_pool[i])

====
